---- MODULE Spec2Model ----
(***************************************************************************)
(* Authentication, two-factor enrolment, role gates and the registration, *)
(* login and administration of students of the learning-management        *)
(* backend (routes/auth.mjs, routes/student.mjs, middleware/auth.mjs,      *)
(* middleware/roleAuth.mjs, models/User.mjs, models/Student.mjs).          *)
(*                                                                         *)
(* Abstractions:                                                           *)
(*  - an email is a number; the addresses above NumEmails are the same     *)
(*    addresses typed with capitals, and Lower is the schema's lowercase   *)
(*    setter, which the store applies to saved values and query filters;   *)
(*  - the unique indexes of the collections are built;                      *)
(*  - Math.random() takes the values k / NumDraws, and a date is a number; *)
(*  - a course is its isActive flag; models/Course.mjs is not part of the  *)
(*    sources, so what save() says of a new course is left open;           *)
(*  - a JWT is the record of its payload, the key that signed it and its   *)
(*    expiry instant; jwt.verify checks structure, then signature, then    *)
(*    expiry, as the jsonwebtoken library does;                            *)
(*  - time is counted in minutes;                                          *)
(*  - a bcrypt hash is the pair <<plaintext, rounds>>: rounds = 0 is the   *)
(*    plaintext, each bcrypt.hash adds one round, and bcrypt.compare(c, h) *)
(*    holds exactly when h is one round over the candidate c;              *)
(*  - a TOTP code is a function of the key alone (the window of adjacent   *)
(*    time steps is collapsed into "the code the authenticator shows").    *)
(***************************************************************************)
EXTENDS Integers, Sequences, FiniteSets, TLC

\* ---------------------------------------------------------------- bounds
MaxUsers == 2
MaxStudents == 2
MaxRegs == 2
MaxTokens == 2
MaxTicks == 1
MaxInFlight == 1
NumSecrets == 2
NumPasswords == 2
NumEmails == 2
NumCnics == 2
NumNames == 1
MaxCourses == 2
NumDates == 2
NumDraws == 2

\* ------------------------------------------------------ program constants
PendingTTL == 5
FullTTL == 1440
RollBase == 100000
RollSpan == 900000
DefaultKey == "121212"

UserIds == 1..MaxUsers
StudentIds == 1..MaxStudents
CourseIds == 1..MaxCourses
\* Math.random() takes the values k / NumDraws
Draws == 0..(NumDraws - 1)
Dates == 1..NumDates
Secrets == 1..NumSecrets
Passwords == 1..NumPasswords
Emails == 1..NumEmails
Cnics == 1..NumCnics
Names == 1..NumNames

\* what a client types as an email: an address in lower case, or the same
\* address with capital letters (e + NumEmails); the schemas store and look
\* up the lower-case form (lowercase: true)
RawEmails == 1..(NumEmails + NumEmails)
Lower(e) == IF e > NumEmails THEN e - NumEmails ELSE e

\* absent values (undefined in the request body or in the document)
NoSecret == 0
NoPassword == 0
NoCode == 0
NoName == 0
NoEmail == 0
NoCnic == 0
NoId == 0

UserRoles == <<"user", "admin", "maintenance_office">>
RoleInputs == {"", "user", "admin", "maintenance_office", "teacher"}

Range(s) == {s[i] : i \in DOMAIN s}

\* ------------------------------------------------------------- passwords
Plain(p) == <<p, 0>>
BcryptHash(x) == <<x[1], x[2] + 1>>
\* "throws" on a missing candidate (bcryptjs: Illegal arguments)
BcryptCompare(candidate, stored) ==
  IF candidate = NoPassword THEN "throws"
  ELSE IF stored = BcryptHash(Plain(candidate)) THEN "match" ELSE "nomatch"

\* ------------------------------------------------------------------ TOTP
\* the code an authenticator derives from a key; key 0 is the empty key,
\* which is what decoding an absent base32 secret yields
TotpCode(k) == k + 1
WrongCode == TotpCode(NumSecrets + 1)
Codes == {TotpCode(k) : k \in 0..NumSecrets} \cup {WrongCode}

\* ---------------------------------------------------------------- tokens
NoToken ==
  [kind |-> "none", uid |-> NoId, sid |-> NoId, role |-> "", email |-> NoEmail,
   requires2FA |-> FALSE, key |-> "", exp |-> 0]
Malformed == [NoToken EXCEPT !.kind = "malformed"]

JwtSign(uid, role, email, flag, key, exp) ==
  [kind |-> "jwt", uid |-> uid, sid |-> NoId, role |-> role, email |-> email,
   requires2FA |-> flag, key |-> key, exp |-> exp]

\* the student token: { studentId, role: 'student' }, no userId, no email
JwtSignStudent(sid, key, exp) ==
  [kind |-> "jwt", uid |-> NoId, sid |-> sid, role |-> "student",
   email |-> NoEmail, requires2FA |-> FALSE, key |-> key, exp |-> exp]

\* jwt.verify(token, key) at instant t: "" when the token verifies, else the
\* name of the error thrown
JwtVerify(tok, key, t) ==
  IF tok.kind # "jwt" THEN "JsonWebTokenError"
  ELSE IF tok.key # key THEN "JsonWebTokenError"
  ELSE IF t >= tok.exp THEN "TokenExpiredError"
  ELSE ""

JwtErrorMessage(tok, key, t) ==
  IF tok.kind # "jwt" THEN "jwt malformed"
  ELSE IF tok.key # key THEN "invalid signature"
  ELSE IF t >= tok.exp THEN "jwt expired"
  ELSE ""

\* ----------------------------------------------------------------- state
VARIABLES jwtSecret, totpNoSecret, now, ticks, users, nextId, tokens,
          inflight, sinceDisable, last, students, nextSid, regs,
          courses, nextCid, attendance, marks

vars == <<jwtSecret, totpNoSecret, now, ticks, users, nextId, tokens,
          inflight, sinceDisable, last, students, nextSid, regs,
          courses, nextCid, attendance, marks>>

\* process.env.JWT_SECRET || '121212'
SignKey == IF jwtSecret = "" THEN DefaultKey ELSE jwtSecret

NoUser ==
  [exists |-> FALSE, email |-> NoEmail, cnic |-> NoCnic,
   password |-> <<NoPassword, 0>>, role |-> "", firstName |-> NoName,
   twoFactorEnabled |-> FALSE, twoFactorSecret |-> NoSecret]

StudentStatuses == {"Pending", "Enrolled", "Eliminated", "Suspended"}

\* address: "unset" (no address sent), "given" (the object sent) or "empty"
\* (the object with five empty strings)
NoStudent ==
  [exists |-> FALSE, email |-> NoEmail, cnic |-> NoCnic,
   password |-> <<NoPassword, 0>>, status |-> "", address |-> "unset",
   rollId |-> 0]

\* Math.floor(100000 + Math.random() * 900000) for Math.random() = k / NumDraws
RandomRoll(k) == RollBase + ((k * RollSpan) \div NumDraws)

\* this.constructor.findOne({ rollId })
RollTaken(ss, roll) == \E i \in StudentIds : ss[i].exists /\ ss[i].rollId = roll

RollIndexAbsent(ss, self, roll) == TRUE

\* rollId: { unique: true, sparse: true }
RollIndexAllows(ss, self, roll) ==
  \A o \in StudentIds \ {self} : ss[o].exists => ss[o].rollId # roll

UserIndexAbsent(us, self, email, cnic) == TRUE

\* the unique indexes of the users collection (email, cnic): a save is
\* refused with E11000 when another document holds the same key
UserIndexAllows(us, self, email, cnic) ==
  \A o \in UserIds \ {self} :
    us[o].exists => (us[o].email # email /\ us[o].cnic # cnic)

\* the unique indexes of the students collection (email, cnic)
StudentIndexAllows(ss, self, email, cnic) ==
  \A o \in StudentIds \ {self} :
    ss[o].exists => (ss[o].email # email /\ ss[o].cnic # cnic)

\* ---------------------------------------------------- response bodies
\* the user object written out field by field by register, login and
\* login/verify-2fa
UserView ==
  {"id", "firstName", "lastName", "email", "cnic", "phoneNumber",
   "dateOfBirth", "expertise", "profilePicture", "location", "languages",
   "qualification", "role", "isVerified"}

\* the paths of a user document
UserPaths ==
  (UserView \ {"id"}) \cup
  {"_id", "password", "twoFactorSecret", "twoFactorEnabled", "notifications",
   "preferences", "createdAt", "updatedAt"}

\* user.toObject(): the paths the query loaded; twoFactorSecret (select:
\* false) is loaded only when asked for and only when it is stored
ToObject(user, withSecret) ==
  (UserPaths \ {"twoFactorSecret"}) \cup
  (IF withSecret /\ user.twoFactorSecret # NoSecret
   THEN {"twoFactorSecret"} ELSE {})

GetPublicProfileRaw(user, withSecret) == ToObject(user, withSecret)

\* delete userObject.password; delete userObject.twoFactorSecret
GetPublicProfile(user, withSecret) ==
  ToObject(user, withSecret) \ {"password", "twoFactorSecret"}

\* the student object written out by student registration
StudentView ==
  {"id", "firstName", "lastName", "email", "cnic", "phoneNumber", "gender",
   "address", "guardianName", "guardianPhone", "guardianRelation", "status",
   "profilePicture", "rollId"}

\* the student object written out by student login
StudentLoginView ==
  {"id", "firstName", "lastName", "email", "status", "enrolledCourses"}

\* the paths of a student document (res.json(student))
StudentPaths ==
  (StudentView \ {"id"}) \cup
  {"_id", "password", "dateOfBirth", "enrolledCourses", "enrollmentDate",
   "isActive", "createdAt", "updatedAt"}

\* User.findById: ids never issued resolve to no document
FindById(us, id) == IF id \in UserIds THEN us[id] ELSE NoUser

\* Student.findById
FindStudent(ss, id) == IF id \in StudentIds THEN ss[id] ELSE NoStudent

\* speakeasy.totp.verify({secret, encoding: 'base32', token: code}):
\* "ok", "no", or "throws".  With no stored secret the outcome is the
\* library's: it either throws or checks the code against the empty key.
TotpVerify(secret, code) ==
  IF secret = NoSecret
  THEN IF totpNoSecret = "throws" THEN "throws"
       ELSE IF code = TotpCode(0) THEN "ok" ELSE "no"
  ELSE IF code = TotpCode(secret) THEN "ok" ELSE "no"

\* req.user before a gate has run
NoIdent == [id |-> NoId, role |-> "", email |-> NoEmail]

\* the bearer token, body credentials and answer of the last request; ident
\* is the req.user a gate attached, fields the names of the principal's
\* fields in the response body, idCard what the server log says of the
\* ID-card block of student registration, email and address what a
\* registration submitted, newpw the newPassword of a change of password,
\* course and date the course and the date a course or attendance request
\* names
Respond(op, bearer, uid, pw, code, status, msg, err, token) ==
  [op |-> op, bearer |-> bearer, uid |-> uid, pw |-> pw, code |-> code,
   status |-> status, msg |-> msg, err |-> err, token |-> token,
   names |-> <<>>, ident |-> NoIdent, fields |-> {}, idCard |-> "notrun",
   email |-> NoEmail, address |-> "absent", newpw |-> NoPassword,
   course |-> NoId, date |-> 0]

\* no response is outstanding
Idle == Respond("idle", NoToken, NoId, NoPassword, NoCode, 0, "", "", NoToken)

\* tokens a client holds (at most MaxTokens are remembered)
Keep(ts, t) == IF Cardinality(ts \cup {t}) <= MaxTokens THEN ts \cup {t} ELSE ts

\* a token signed by somebody who does not know the signing key
WrongSig(u) == JwtSign(u, "admin", NoEmail, FALSE, "attacker", 0)

Bearers == tokens \cup {NoToken, Malformed} \cup {WrongSig(u) : u \in UserIds}

Init ==
  /\ jwtSecret \in {"", "configured"}
  /\ totpNoSecret \in {"throws", "emptyKey"}
  /\ now = 0
  /\ ticks = 0
  /\ users = [u \in UserIds |-> NoUser]
  /\ nextId = 1
  /\ tokens = {}
  /\ inflight = {}
  /\ sinceDisable = [u \in UserIds |-> FALSE]
  /\ last = Idle
  /\ students = [i \in StudentIds |-> NoStudent]
  /\ nextSid = 1
  /\ regs = {}
  /\ courses = [c \in CourseIds |-> "none"]
  /\ nextCid = 1
  /\ attendance = <<>>
  /\ marks = {}

\* ------------------------------------------------------------- the clock
Tick(d) ==
  /\ ticks < MaxTicks
  /\ now' = now + d
  /\ ticks' = ticks + 1
  /\ UNCHANGED <<jwtSecret, totpNoSecret, courses, nextCid, attendance, marks, students, nextSid, regs, users, nextId, tokens, inflight,
                 sinceDisable, last>>

\* userSchema.pre('save'): a modified password is hashed (again)
UserPreSave(passwordModified, pw) ==
  IF passwordModified THEN BcryptHash(pw) ELSE pw

\* ------------------------------------------------------- POST /register
RegisterFail(email, pw, status, msg, err) ==
  /\ last' = [Respond("register", NoToken, NoId, pw, NoCode, status, msg, err, NoToken)
                EXCEPT !.email = email]
  /\ UNCHANGED <<users, nextId, tokens>>

\* new User({...}); await user.save(); jwt.sign; res.status(201): validation,
\* the password hook, then the insert under the unique indexes
RegisterSave(email, cnic, pw, r) ==
  LET id == nextId
      stored == Lower(email)
      tok == JwtSign(id, r, stored, FALSE, SignKey, now + FullTTL)
  IN
  IF r \notin Range(UserRoles) THEN
    RegisterFail(email, pw, 500, "Error registering user",
                 "User validation failed: role is not a valid enum value")
  ELSE IF pw = NoPassword THEN
    RegisterFail(email, pw, 500, "Error registering user",
                 "User validation failed: password is required")
  ELSE IF ~UserIndexAllows(users, NoId, stored, cnic) THEN
    RegisterFail(email, pw, 500, "Error registering user", "E11000 duplicate key error")
  ELSE
    /\ nextId <= MaxUsers
    /\ users' = [users EXCEPT ![id] =
         [exists |-> TRUE, email |-> stored, cnic |-> cnic,
          password |-> UserPreSave(TRUE, Plain(pw)), role |-> r,
          firstName |-> 1,
          twoFactorEnabled |-> FALSE, twoFactorSecret |-> NoSecret]]
    /\ nextId' = nextId + 1
    /\ tokens' = Keep(tokens, tok)
    /\ last' = [Respond("register", NoToken, id, pw, NoCode, 201,
                        "User registered successfully", "", tok)
                  EXCEPT !.fields = UserView, !.email = email]

\* User.findOne({ $or: [{ email }, { cnic }] }): the query is cast through
\* the schema, so the email is looked up in lower case
RegisterLookup(email, cnic) ==
  {u \in UserIds : users[u].exists /\
     (users[u].email = Lower(email) \/ users[u].cnic = cnic)}

\* existingUser.email === email ? 'Email ...' : 'CNIC ...': the stored
\* address against the address as typed; the answer names the record found
\* in uid
RegisterDuplicate(email, cnic, pw) ==
  LET e == CHOOSE u \in RegisterLookup(email, cnic) : TRUE IN
  /\ last' = [Respond("register", NoToken, e, pw, NoCode, 400,
                      IF users[e].email = email THEN "Email already registered"
                      ELSE "CNIC already registered", "", NoToken)
                EXCEPT !.email = email]
  /\ UNCHANGED <<users, nextId, tokens>>

Register(email, cnic, pw, role, file, parsable) ==
  LET r == IF role = "" THEN "user" ELSE role IN
  /\ UNCHANGED <<jwtSecret, totpNoSecret, courses, nextCid, attendance, marks, students, nextSid, regs, now, ticks, inflight, sinceDisable>>
  /\ IF ~parsable THEN
       RegisterFail(email, pw, 500, "Error registering user", "Unexpected token")
     ELSE IF RegisterLookup(email, cnic) # {} THEN
       RegisterDuplicate(email, cnic, pw)
     ELSE IF file = "fail" THEN
       RegisterFail(email, pw, 500, "Error registering user",
                    "Error uploading image to Cloudinary")
     ELSE RegisterSave(email, cnic, pw, r)

\* ---------------------------------------------------------- POST /login
LoginSkips2FA(user) == FALSE

\* if (user.twoFactorEnabled): the login is answered with a temporary token
LoginNeeds2FA(user) == user.twoFactorEnabled

Login(email, pw) ==
  LET found == {u \in UserIds : users[u].exists /\ users[u].email = Lower(email)}
      answer(uid, status, msg, err, tok) ==
        /\ last' = [Respond("login", NoToken, uid, pw, NoCode, status, msg, err, tok)
                      EXCEPT !.fields = IF tok # NoToken /\ ~tok.requires2FA
                                        THEN UserView ELSE {}]
        /\ tokens' = IF tok = NoToken THEN tokens ELSE Keep(tokens, tok)
  IN
  /\ UNCHANGED <<jwtSecret, totpNoSecret, courses, nextCid, attendance, marks, students, nextSid, regs, now, ticks, users, nextId, inflight,
                 sinceDisable>>
  /\ IF found = {} THEN answer(NoId, 401, "Invalid credentials", "", NoToken)
     ELSE
       LET u == CHOOSE x \in found : TRUE
           cmp == BcryptCompare(pw, users[u].password)
       IN
       IF cmp = "throws" THEN answer(u, 500, "Error logging in", "Illegal arguments", NoToken)
       ELSE IF cmp = "nomatch" THEN answer(u, 401, "Invalid credentials.", "", NoToken)
       ELSE IF LoginNeeds2FA(users[u]) THEN
         answer(u, 200, "2FA verification required", "",
                JwtSign(u, users[u].role, users[u].email, TRUE, SignKey, now + PendingTTL))
       ELSE
         answer(u, 200, "Login successful", "",
                JwtSign(u, users[u].role, users[u].email, FALSE, SignKey, now + FullTTL))

\* ------------------------------------------- the inline token check
\* const token = req.headers.authorization?.split(' ')[1]; jwt.verify(...);
\* User.findById(decoded.userId).  status 0: the handler body is entered.
Inline(op, errmsg, bearer, key, pw, code) ==
  IF bearer.kind = "none"
  THEN Respond(op, bearer, NoId, pw, code, 401, "No token provided", "", NoToken)
  ELSE IF JwtVerify(bearer, key, now) # ""
  THEN Respond(op, bearer, NoId, pw, code, 500, errmsg,
               JwtErrorMessage(bearer, key, now), NoToken)
  ELSE IF ~FindById(users, bearer.uid).exists
  THEN Respond(op, bearer, NoId, pw, code, 404, "User not found", "", NoToken)
  ELSE Respond(op, bearer, bearer.uid, pw, code, 0, "", "", NoToken)

\* ------------------------------------------------- POST /login/verify-2fa
LoginVerify2FA(tempToken, code) ==
  LET answer(uid, status, msg, err, tok) ==
        /\ last' = [Respond("login/verify-2fa", tempToken, uid, NoPassword, code,
                            status, msg, err, tok)
                      EXCEPT !.fields = IF tok # NoToken THEN UserView ELSE {}]
        /\ tokens' = IF tok = NoToken THEN tokens ELSE Keep(tokens, tok)
      user == FindById(users, tempToken.uid)
      v == TotpVerify(user.twoFactorSecret, code)
  IN
  /\ UNCHANGED <<jwtSecret, totpNoSecret, courses, nextCid, attendance, marks, students, nextSid, regs, now, ticks, users, nextId, inflight,
                 sinceDisable>>
  /\ IF tempToken.kind = "none" \/ code = NoCode
     THEN answer(NoId, 400, "Missing required fields", "", NoToken)
     ELSE IF JwtVerify(tempToken, SignKey, now) # ""
     THEN answer(NoId, 500, "Error verifying 2FA",
                 JwtErrorMessage(tempToken, SignKey, now), NoToken)
     ELSE IF ~tempToken.requires2FA
     THEN answer(NoId, 400, "Invalid token", "", NoToken)
     ELSE IF ~user.exists
     THEN answer(NoId, 404, "User not found", "", NoToken)
     ELSE IF v = "throws"
     THEN answer(tempToken.uid, 500, "Error verifying 2FA", "TypeError", NoToken)
     ELSE IF v = "no"
     THEN answer(tempToken.uid, 400, "Invalid verification code", "", NoToken)
     ELSE answer(tempToken.uid, 200, "Login successful", "",
                 JwtSign(tempToken.uid, user.role, user.email, FALSE, SignKey,
                         now + FullTTL))

\* ------------------------------------------------------------ GET /profile
GetProfile(bearer) ==
  LET pre == Inline("GET /profile", "Error fetching profile", bearer, SignKey,
                    NoPassword, NoCode)
  IN
  /\ UNCHANGED <<jwtSecret, totpNoSecret, courses, nextCid, attendance, marks, students, nextSid, regs, now, ticks, users, nextId, tokens,
                 inflight, sinceDisable>>
  /\ last' = IF pre.status # 0 THEN pre
             ELSE [pre EXCEPT !.status = 200, !.msg = "Profile fetched successfully",
                              !.fields = GetPublicProfile(users[pre.uid], FALSE)]

\* ------------------------------------------------------------ PUT /profile
PutProfile(bearer, name, email, cnic, file) ==
  LET pre == Inline("PUT /profile", "Error updating profile", bearer, SignKey,
                    NoPassword, NoCode)
      u == bearer.uid
      newEmail == IF email = NoEmail THEN users[u].email ELSE Lower(email)
      newCnic == IF cnic = NoCnic THEN users[u].cnic ELSE cnic
      newName == IF name = NoName THEN users[u].firstName ELSE name
      clash == ~UserIndexAllows(users, u, newEmail, newCnic)
  IN
  /\ UNCHANGED <<jwtSecret, totpNoSecret, courses, nextCid, attendance, marks, students, nextSid, regs, now, ticks, nextId, tokens, inflight,
                 sinceDisable>>
  /\ IF pre.status # 0 THEN last' = pre /\ UNCHANGED users
     ELSE IF file = "fail" THEN
       /\ last' = [pre EXCEPT !.status = 500, !.msg = "Error updating profile",
                              !.err = "Error uploading image to Cloudinary"]
       /\ UNCHANGED users
     ELSE IF clash THEN
       /\ last' = [pre EXCEPT !.status = 500, !.msg = "Error updating profile",
                              !.err = "E11000 duplicate key error"]
       /\ UNCHANGED users
     ELSE
       /\ users' = [users EXCEPT ![u].firstName = newName, ![u].email = newEmail,
                                 ![u].cnic = newCnic]
       /\ last' = [pre EXCEPT !.status = 200, !.msg = "Profile updated successfully",
                              !.fields = GetPublicProfile(users'[u], FALSE)]

\* ---------------------------------------------------- PUT /change-password
ChangePassword(bearer, cur, new) ==
  LET pre == Inline("PUT /change-password", "Error changing password", bearer,
                    SignKey, cur, NoCode)
      u == bearer.uid
      cmp == BcryptCompare(cur, users[u].password)
  IN
  /\ UNCHANGED <<jwtSecret, totpNoSecret, courses, nextCid, attendance, marks, students, nextSid, regs, now, ticks, nextId, tokens, inflight,
                 sinceDisable>>
  /\ IF pre.status # 0 THEN last' = pre /\ UNCHANGED users
     ELSE IF cmp = "throws" \/ (cmp = "match" /\ new = NoPassword) THEN
       /\ last' = [pre EXCEPT !.status = 500, !.msg = "Error changing password",
                              !.err = "Illegal arguments"]
       /\ UNCHANGED users
     ELSE IF cmp = "nomatch" THEN
       /\ last' = [pre EXCEPT !.status = 400, !.msg = "Current password is incorrect"]
       /\ UNCHANGED users
     ELSE
       /\ users' = [users EXCEPT ![u].password =
                      UserPreSave(TRUE, BcryptHash(Plain(new)))]
       /\ last' = [pre EXCEPT !.status = 200, !.msg = "Password changed successfully",
                              !.newpw = new]

\* --------------------------------------------------------- DELETE /account
DeleteAccount(bearer, pw) ==
  LET pre == Inline("DELETE /account", "Error deleting account", bearer, SignKey,
                    pw, NoCode)
      u == bearer.uid
      cmp == BcryptCompare(pw, users[u].password)
  IN
  /\ UNCHANGED <<jwtSecret, totpNoSecret, courses, nextCid, attendance, marks, students, nextSid, regs, now, ticks, nextId, tokens, inflight>>
  /\ IF pre.status # 0 THEN last' = pre /\ UNCHANGED <<users, sinceDisable>>
     ELSE IF cmp = "throws" THEN
       /\ last' = [pre EXCEPT !.status = 500, !.msg = "Error deleting account",
                              !.err = "Illegal arguments"]
       /\ UNCHANGED <<users, sinceDisable>>
     ELSE IF cmp = "nomatch" THEN
       /\ last' = [pre EXCEPT !.status = 400, !.msg = "Password is incorrect"]
       /\ UNCHANGED <<users, sinceDisable>>
     ELSE
       /\ users' = [users EXCEPT ![u] = NoUser]
       /\ sinceDisable' = [sinceDisable EXCEPT ![u] = FALSE]
       /\ last' = [pre EXCEPT !.status = 200, !.msg = "Account deleted successfully"]

\* ------------------------------------------------------- POST /2fa/setup
\* the part of the handler after User.findById returned snap: the generated
\* secret is saved (only the modified path is written)
Setup2FABody(pre, s, snap) ==
  IF ~users[pre.uid].exists THEN
    /\ last' = [pre EXCEPT !.status = 500, !.msg = "Error setting up 2FA",
                           !.err = "DocumentNotFoundError"]
    /\ UNCHANGED <<users, sinceDisable>>
  ELSE
    /\ users' = [users EXCEPT ![pre.uid].twoFactorSecret = s]
    /\ sinceDisable' = [sinceDisable EXCEPT ![pre.uid] = FALSE]
    /\ last' = [pre EXCEPT !.status = 200, !.msg = "2FA setup initiated"]

Setup2FA(bearer, s) ==
  LET pre == Inline("POST /2fa/setup", "Error setting up 2FA", bearer, SignKey,
                    NoPassword, NoCode)
  IN
  /\ UNCHANGED <<jwtSecret, totpNoSecret, courses, nextCid, attendance, marks, students, nextSid, regs, now, ticks, nextId, tokens, inflight>>
  /\ IF pre.status # 0 THEN last' = pre /\ UNCHANGED <<users, sinceDisable>>
     ELSE Setup2FABody(pre, s, users[pre.uid])

\* ------------------------------------------------------ POST /2fa/verify
\* the token is verified against the literal '121212'
Verify2FAKey == DefaultKey

Verify2FABody(pre, snap) ==
  LET v == TotpVerify(snap.twoFactorSecret, pre.code) IN
  IF pre.code = NoCode \/ v = "throws" THEN
    /\ last' = [pre EXCEPT !.status = 500, !.msg = "Error enabling 2FA",
                           !.err = "TypeError"]
    /\ UNCHANGED <<users, sinceDisable>>
  ELSE IF v = "no" THEN
    /\ last' = [pre EXCEPT !.status = 400, !.msg = "Invalid verification code"]
    /\ UNCHANGED <<users, sinceDisable>>
  ELSE IF ~users[pre.uid].exists THEN
    /\ last' = [pre EXCEPT !.status = 500, !.msg = "Error enabling 2FA",
                           !.err = "DocumentNotFoundError"]
    /\ UNCHANGED <<users, sinceDisable>>
  ELSE
    /\ users' = [users EXCEPT ![pre.uid].twoFactorEnabled = TRUE]
    /\ last' = [pre EXCEPT !.status = 200, !.msg = "2FA enabled successfully"]
    /\ UNCHANGED sinceDisable

Verify2FA(bearer, code) ==
  LET pre == Inline("POST /2fa/verify", "Error enabling 2FA", bearer, Verify2FAKey,
                    NoPassword, code)
  IN
  /\ UNCHANGED <<jwtSecret, totpNoSecret, courses, nextCid, attendance, marks, students, nextSid, regs, now, ticks, nextId, tokens, inflight>>
  /\ IF pre.status # 0 THEN last' = pre /\ UNCHANGED <<users, sinceDisable>>
     ELSE Verify2FABody(pre, users[pre.uid])

\* ----------------------------------------------------- POST /2fa/disable
Disable2FAFlagOnly(pre, snap) ==
  IF ~snap.twoFactorEnabled THEN
    /\ last' = [pre EXCEPT !.status = 400, !.msg = "2FA is not enabled"]
    /\ UNCHANGED <<users, sinceDisable>>
  ELSE
    /\ users' = [users EXCEPT ![pre.uid].twoFactorEnabled = FALSE]
    /\ sinceDisable' = [sinceDisable EXCEPT ![pre.uid] = TRUE]
    /\ last' = [pre EXCEPT !.status = 200, !.msg = "2FA disabled successfully"]

\* the request body is not read: no password is asked for
Disable2FABody(pre, snap) ==
  IF ~snap.twoFactorEnabled THEN
    /\ last' = [pre EXCEPT !.status = 400, !.msg = "2FA is not enabled"]
    /\ UNCHANGED <<users, sinceDisable>>
  ELSE IF ~users[pre.uid].exists THEN
    /\ last' = [pre EXCEPT !.status = 500, !.msg = "Error disabling 2FA",
                           !.err = "DocumentNotFoundError"]
    /\ UNCHANGED <<users, sinceDisable>>
  ELSE
    /\ users' = [users EXCEPT ![pre.uid].twoFactorEnabled = FALSE,
                              ![pre.uid].twoFactorSecret = NoSecret]
    /\ sinceDisable' = [sinceDisable EXCEPT ![pre.uid] = TRUE]
    /\ last' = [pre EXCEPT !.status = 200, !.msg = "2FA disabled successfully"]

Disable2FA(bearer, pw) ==
  LET pre == Inline("POST /2fa/disable", "Error disabling 2FA", bearer, SignKey,
                    pw, NoCode)
  IN
  /\ UNCHANGED <<jwtSecret, totpNoSecret, courses, nextCid, attendance, marks, students, nextSid, regs, now, ticks, nextId, tokens, inflight>>
  /\ IF pre.status # 0 THEN last' = pre /\ UNCHANGED <<users, sinceDisable>>
     ELSE Disable2FABody(pre, users[pre.uid])

\* ------------------------------------- the gates (middleware before a handler)
CheckRoleGates == {"adminOnly", "maintenanceOfficeOnly", "adminOrMaintenance"}
Gates == CheckRoleGates \cup {"isAuthenticated", "isTeacher", "isAdmin"}

GateRolesWidened(g) ==
  IF g = "isAuthenticated" THEN <<>> ELSE <<"admin", "maintenance_office">>

\* the roles a gate admits; isAuthenticated checks no role
GateRoles(g) ==
  CASE g = "adminOnly" -> <<"admin">>
    [] g = "maintenanceOfficeOnly" -> <<"maintenance_office">>
    [] g = "adminOrMaintenance" -> <<"admin", "maintenance_office">>
    [] g = "isTeacher" -> <<"teacher">>
    [] g = "isAdmin" -> <<"admin">>
    [] OTHER -> <<>>

\* roles.join(' or ')
RECURSIVE Join(_)
Join(roles) ==
  IF Len(roles) = 0 THEN <<>>
  ELSE IF Len(roles) = 1 THEN roles
  ELSE <<Head(roles), " or ">> \o Join(Tail(roles))

\* the answer of gate g: status 0, msg "next" when next() is called and the
\* downstream handler runs with req.user = { _id, role, email }
GateAnswer(g, bearer) ==
  LET e == JwtVerify(bearer, SignKey, now)
      r(status, msg) == Respond(g, bearer, NoId, NoPassword, NoCode, status, msg, "", NoToken)
  IN
  IF bearer.kind = "none" THEN r(401, "Authentication required")
  ELSE IF e # "" THEN
    IF g \in CheckRoleGates /\ e = "TokenExpiredError"
    THEN r(401, "Token expired") ELSE r(401, "Invalid token")
  ELSE IF g # "isAuthenticated" /\ bearer.role \notin Range(GateRoles(g)) THEN
    IF g = "isTeacher" THEN r(403, "Teacher access required")
    ELSE IF g = "isAdmin" THEN r(403, "Admin access required")
    ELSE [r(403, "Access denied. Required role: ") EXCEPT !.names = Join(GateRoles(g))]
  ELSE [r(0, "next") EXCEPT
          !.uid = bearer.uid,
          !.ident = [id |-> IF bearer.uid # NoId THEN bearer.uid ELSE bearer.sid,
                     role |-> bearer.role, email |-> bearer.email]]

Gate(g, bearer) ==
  /\ UNCHANGED <<jwtSecret, totpNoSecret, courses, nextCid, attendance, marks, students, nextSid, regs, now, ticks, users, nextId, tokens,
                 inflight, sinceDisable>>
  /\ last' = GateAnswer(g, bearer)

\* ------------------------------------------------ POST /students/register
StudentFaults ==
  {"none", "courses-garbage", "courses-unknown", "upload", "pdf", "qr",
   "smtp", "mail"}
IdCardFaults == {"pdf", "qr", "smtp", "mail"}
AddressInputs == {"absent", "json", "garbage"}
StatusInputs == StudentStatuses \cup {"", "active"}

ParseAddressNoDefault(address) ==
  IF address = "absent" THEN "unset" ELSE "given"

\* JSON.parse(address), and in its catch the object of five empty strings
ParseAddress(address) ==
  CASE address = "absent" -> "unset"
    [] address = "json" -> "given"
    [] address = "garbage" -> "empty"

StatusFromBody(bodyStatus) == IF bodyStatus = "" THEN "Pending" ELSE bodyStatus

\* status: 'Pending' in new Student({...}); req.body.status is not read
StatusAtRegistration(bodyStatus) == "Pending"

IdCardBlockRethrows(fault) == fault \in IdCardFaults

\* catch (error) { console.error('Error generating/sending ID card:') }:
\* nothing leaves the block
IdCardBlockThrows(fault) == FALSE

StudentRegisterFail(email, address, pw, status, msg, err) ==
  /\ last' = [Respond("student register", NoToken, NoId, pw, NoCode, status, msg,
                      err, NoToken)
                EXCEPT !.email = email, !.address = address]
  /\ UNCHANGED <<students, nextSid>>

\* bcrypt.hash(password); new Student({...}); await student.save(); the
\* ID-card block; res.status(201).  roll is the rollId the pre-save hook
\* has assigned: a candidate that no student held when it was drawn
StudentRegisterSave(email, cnic, pw, bodyStatus, address, fault, roll) ==
  LET id == nextSid
      stored == Lower(email)
      doc == [exists |-> TRUE, email |-> stored, cnic |-> cnic,
              password |-> BcryptHash(Plain(pw)),
              status |-> StatusAtRegistration(bodyStatus),
              address |-> ParseAddress(address), rollId |-> roll]
  IN
  IF pw = NoPassword THEN
    StudentRegisterFail(email, address, pw, 500, "Error registering student",
                        "data and salt arguments required")
  ELSE IF doc.status \notin StudentStatuses THEN
    StudentRegisterFail(email, address, pw, 500, "Error registering student",
                        "Student validation failed")
  ELSE IF ~StudentIndexAllows(students, NoId, stored, cnic) THEN
    StudentRegisterFail(email, address, pw, 500, "Error registering student",
                        "E11000 duplicate key error")
  ELSE IF ~RollIndexAllows(students, NoId, roll) THEN
    StudentRegisterFail(email, address, pw, 500, "Error registering student",
                        "E11000 duplicate key error: rollId")
  ELSE
    /\ nextSid <= MaxStudents
    /\ students' = [students EXCEPT ![id] = doc]
    /\ nextSid' = nextSid + 1
    /\ last' =
         IF IdCardBlockThrows(fault)
         THEN [Respond("student register", NoToken, id, pw, NoCode, 500,
                       "Error registering student", fault, NoToken)
                 EXCEPT !.idCard = fault, !.email = email, !.address = address]
         ELSE [Respond("student register", NoToken, id, pw, NoCode, 201,
                       "Registered successfully", "", NoToken)
                 EXCEPT !.fields = StudentView, !.email = email,
                        !.address = address,
                        !.idCard = IF fault \in IdCardFaults THEN fault ELSE "ok"]

\* Student.findOne({ $or: [{ email }, { cnic }] })
StudentLookup(email, cnic) ==
  {i \in StudentIds : students[i].exists /\
     (students[i].email = Lower(email) \/ students[i].cnic = cnic)}

\* the answer names the record found in uid
StudentDuplicate(email, cnic, pw, address) ==
  LET e == CHOOSE i \in StudentLookup(email, cnic) : TRUE IN
  /\ last' = [Respond("student register", NoToken, e, pw, NoCode, 400,
                      IF students[e].email = email THEN "Email already registered"
                      ELSE "CNIC already registered", "", NoToken)
                EXCEPT !.email = email, !.address = address]
  /\ UNCHANGED <<students, nextSid>>

StudentUploadLate(email, cnic, pw, address) ==
  /\ nextSid <= MaxStudents
  /\ students' = [students EXCEPT ![nextSid] =
       [exists |-> TRUE, email |-> Lower(email), cnic |-> cnic,
        password |-> BcryptHash(Plain(pw)), status |-> "Pending",
        address |-> "unset", rollId |-> RandomRoll(0)]]
  /\ nextSid' = nextSid + 1
  /\ last' = [Respond("student register", NoToken, NoId, pw, NoCode, 500,
                      "Error registering student",
                      "Error uploading image to Cloudinary", NoToken)
                EXCEPT !.email = email, !.address = address]

\* uploadToCloudinary(req.file) throws before the student is constructed
StudentUploadFails(email, cnic, pw, address) ==
  StudentRegisterFail(email, address, pw, 500, "Error registering student",
                      "Error uploading image to Cloudinary")

\* k is the draw on which the loop of the pre-save hook ends: the loop goes
\* on while the candidate is held by a student
StudentRegister(email, cnic, pw, bodyStatus, address, fault, k) ==
  /\ UNCHANGED <<jwtSecret, totpNoSecret, courses, nextCid, attendance, marks, regs, now, ticks, users, nextId,
                 tokens, inflight, sinceDisable>>
  /\ IF fault = "courses-garbage" THEN
       StudentRegisterFail(email, address, pw, 400, "Invalid course selection format", "")
     ELSE IF fault = "courses-unknown" THEN
       StudentRegisterFail(email, address, pw, 400, "One or more selected courses do not exist", "")
     ELSE IF StudentLookup(email, cnic) # {} THEN
       StudentDuplicate(email, cnic, pw, address)
     ELSE IF fault = "upload" THEN StudentUploadFails(email, cnic, pw, address)
     ELSE IF pw = NoPassword THEN
       StudentRegisterSave(email, cnic, pw, bodyStatus, address, fault, 0)
     ELSE
       /\ ~RollTaken(students, RandomRoll(k))
       /\ StudentRegisterSave(email, cnic, pw, bodyStatus, address, fault,
                              RandomRoll(k))

\* --------------------------------------------------- POST /students/login
CanAccessAccountAny(student) == TRUE

\* studentSchema.methods.canAccessAccount
CanAccessAccount(student) == student.status \in {"Enrolled"}

StudentLogin(email, pw) ==
  LET found == {i \in StudentIds : students[i].exists /\ students[i].email = Lower(email)}
      answer(status, msg, err, tok) ==
        /\ last' = [Respond("student login", NoToken, NoId, pw, NoCode, status,
                            msg, err, tok)
                      EXCEPT !.fields = IF tok # NoToken THEN StudentLoginView ELSE {},
                             !.email = email]
        /\ tokens' = IF tok = NoToken THEN tokens ELSE Keep(tokens, tok)
  IN
  /\ UNCHANGED <<jwtSecret, totpNoSecret, courses, nextCid, attendance, marks, students, nextSid, regs, now, ticks,
                 users, nextId, inflight, sinceDisable>>
  /\ IF found = {} THEN answer(401, "Invalid credentials", "", NoToken)
     ELSE
       LET i == CHOOSE x \in found : TRUE
           cmp == BcryptCompare(pw, students[i].password)
       IN
       IF cmp = "throws" THEN answer(500, "Error logging in", "Illegal arguments", NoToken)
       ELSE IF cmp = "nomatch" THEN answer(401, "Invalid credentials", "", NoToken)
       ELSE IF ~CanAccessAccount(students[i]) THEN
         answer(403, "Your account is not active", "", NoToken)
       ELSE answer(200, "Login successful", "",
                   JwtSignStudent(i, SignKey, now + FullTTL))

\* the answer of adminOrMaintenance in front of a students route
StudentGate(op, bearer) ==
  [GateAnswer("adminOrMaintenance", bearer) EXCEPT !.op = op]

\* -------------------------------------------------------- POST /students
\* the document is built without password, cnic, gender or guardian fields,
\* which the schema requires: save() always fails validation
StudentCreate(bearer, email) ==
  LET pre == StudentGate("POST /students", bearer) IN
  /\ UNCHANGED <<jwtSecret, totpNoSecret, courses, nextCid, attendance, marks, students, nextSid, regs, now, ticks,
                 users, nextId, tokens, inflight, sinceDisable>>
  /\ last' =
       IF pre.status # 0 THEN pre
       ELSE IF \E i \in StudentIds :
                 students[i].exists /\ students[i].email = Lower(email)
       THEN [pre EXCEPT !.status = 400,
                        !.msg = "Student with this email already exists"]
       ELSE [pre EXCEPT !.status = 500, !.msg = "Error creating student",
                        !.err = "Student validation failed"]

\* ----------------------------------------------------- PUT /students/:id
StudentUpdate(bearer, sid, email, status, file) ==
  LET pre == StudentGate("PUT /students/:id", bearer)
      cur == FindStudent(students, sid)
      newEmail == IF email = NoEmail THEN cur.email ELSE Lower(email)
      newStatus == IF status = "" THEN cur.status ELSE status
  IN
  /\ UNCHANGED <<jwtSecret, totpNoSecret, courses, nextCid, attendance, marks, nextSid, regs, now, ticks, users,
                 nextId, tokens, inflight, sinceDisable>>
  /\ IF pre.status # 0 THEN last' = pre /\ UNCHANGED students
     ELSE IF ~cur.exists THEN
       /\ last' = [pre EXCEPT !.status = 404, !.msg = "Student not found"]
       /\ UNCHANGED students
     ELSE IF file = "fail" THEN
       /\ last' = [pre EXCEPT !.status = 500, !.msg = "Error updating student",
                              !.err = "Error uploading image to Cloudinary"]
       /\ UNCHANGED students
     ELSE IF newStatus \notin StudentStatuses THEN
       /\ last' = [pre EXCEPT !.status = 500, !.msg = "Error updating student",
                              !.err = "Student validation failed"]
       /\ UNCHANGED students
     ELSE IF ~StudentIndexAllows(students, sid, newEmail, cur.cnic) THEN
       /\ last' = [pre EXCEPT !.status = 500, !.msg = "Error updating student",
                              !.err = "E11000 duplicate key error"]
       /\ UNCHANGED students
     ELSE
       /\ students' = [students EXCEPT ![sid].email = newEmail,
                                       ![sid].status = newStatus]
       /\ last' = [pre EXCEPT !.status = 200, !.msg = "Student updated successfully",
                              !.fields = StudentPaths]

\* ------------------------------- GET /students and GET /students/enrolled
ListOps == {"GET /students", "GET /students/enrolled"}

\* .select('-password')
StudentListView == StudentPaths \ {"password"}

\* router.get('/', async ...) and router.get('/enrolled', async ...): no
\* middleware stands before the handler and the handler does not read the
\* Authorization header
StudentList(op, bearer) ==
  LET listed == {i \in StudentIds :
                   students[i].exists /\
                   (op = "GET /students/enrolled" => students[i].status = "Enrolled")}
  IN
  /\ UNCHANGED <<jwtSecret, totpNoSecret, courses, nextCid, attendance, marks, students, nextSid, regs, now, ticks,
                 users, nextId, tokens, inflight, sinceDisable>>
  /\ last' = [Respond(op, bearer, NoId, NoPassword, NoCode, 200, "", "", NoToken)
                EXCEPT !.fields = IF listed = {} THEN {} ELSE StudentListView]

\* ----------------------------------------------------- GET /students/:id
StudentGet(bearer, sid) ==
  LET pre == StudentGate("GET /students/:id", bearer) IN
  /\ UNCHANGED <<jwtSecret, totpNoSecret, courses, nextCid, attendance, marks, students, nextSid, regs, now, ticks,
                 users, nextId, tokens, inflight, sinceDisable>>
  /\ last' =
       IF pre.status # 0 THEN pre
       ELSE IF ~FindStudent(students, sid).exists
       THEN [pre EXCEPT !.status = 404, !.msg = "Student not found"]
       ELSE [pre EXCEPT !.status = 200, !.uid = sid, !.fields = StudentListView]

\* --------------------------------------------------- DELETE /students/:id
StudentDelete(bearer, sid) ==
  LET pre == StudentGate("DELETE /students/:id", bearer) IN
  /\ UNCHANGED <<jwtSecret, totpNoSecret, courses, nextCid, attendance, marks, nextSid, regs, now, ticks, users,
                 nextId, tokens, inflight, sinceDisable>>
  /\ IF pre.status # 0 THEN last' = pre /\ UNCHANGED students
     ELSE IF ~FindStudent(students, sid).exists THEN
       /\ last' = [pre EXCEPT !.status = 404, !.msg = "Student not found"]
       /\ UNCHANGED students
     ELSE
       /\ students' = [students EXCEPT ![sid] = NoStudent]
       /\ last' = [pre EXCEPT !.status = 200, !.msg = "Student deleted successfully"]

\* ------------------------------------------------------------ courses
\* a course is "none" (no document), "active" or "inactive" (isActive)
FindCourse(cs, id) == IF id \in CourseIds THEN cs[id] ELSE "none"

CourseGate(op, bearer, cid) ==
  [GateAnswer("maintenanceOfficeOnly", bearer) EXCEPT !.op = op, !.course = cid]

\* POST /courses: new Course({..., createdBy: req.user.userId}); save().
\* req.user has no userId (the gate sets _id), so createdBy is undefined;
\* whether save() accepts that, and the default of isActive, are the Course
\* schema's: valid and active take either value
CourseCreate(bearer, valid, active) ==
  LET pre == CourseGate("POST /courses", bearer, NoId) IN
  /\ UNCHANGED <<jwtSecret, totpNoSecret, attendance, marks, students, nextSid,
                 regs, now, ticks, users, nextId, tokens, inflight, sinceDisable>>
  /\ IF pre.status # 0 THEN last' = pre /\ UNCHANGED <<courses, nextCid>>
     ELSE IF ~valid THEN
       /\ last' = [pre EXCEPT !.status = 500, !.msg = "Error creating course",
                              !.err = "Course validation failed"]
       /\ UNCHANGED <<courses, nextCid>>
     ELSE
       /\ nextCid <= MaxCourses
       /\ courses' = [courses EXCEPT ![nextCid] =
                        IF active THEN "active" ELSE "inactive"]
       /\ nextCid' = nextCid + 1
       /\ last' = [pre EXCEPT !.status = 201, !.msg = "Course created successfully",
                              !.course = nextCid]

\* the handlers registered for DELETE /:id, in the order of registration:
\* the permanent delete (line 51) and the soft delete (line 206)
DeleteHandlers == <<"permanent", "soft">>

\* Express runs the first handler whose method and path match; it answers
\* without calling next(), so no later handler runs
Dispatch(handlers) == Head(handlers)

\* DELETE /courses/:id
CourseDelete(bearer, cid) ==
  LET pre == CourseGate("DELETE /courses/:id", bearer, cid)
      h == Dispatch(DeleteHandlers)
  IN
  /\ UNCHANGED <<jwtSecret, totpNoSecret, nextCid, attendance, marks, students,
                 nextSid, regs, now, ticks, users, nextId, tokens, inflight,
                 sinceDisable>>
  /\ IF pre.status # 0 THEN last' = pre /\ UNCHANGED courses
     ELSE IF FindCourse(courses, cid) = "none" THEN
       /\ last' = [pre EXCEPT !.status = 404, !.msg = "Course not found"]
       /\ UNCHANGED courses
     ELSE IF h = "permanent" THEN
       /\ courses' = [courses EXCEPT ![cid] = "none"]
       /\ last' = [pre EXCEPT !.status = 200, !.msg = "Course permanently deleted"]
     ELSE
       /\ courses' = [courses EXCEPT ![cid] = "inactive"]
       /\ last' = [pre EXCEPT !.status = 200, !.msg = "Course deleted successfully"]

\* GET /courses/:id (public): Course.findById
CourseGet(cid) ==
  /\ UNCHANGED <<jwtSecret, totpNoSecret, courses, nextCid, attendance, marks,
                 students, nextSid, regs, now, ticks, users, nextId, tokens,
                 inflight, sinceDisable>>
  /\ last' =
       IF FindCourse(courses, cid) = "none"
       THEN [Respond("GET /courses/:id", NoToken, NoId, NoPassword, NoCode, 404,
                     "Course not found", "", NoToken) EXCEPT !.course = cid]
       ELSE [Respond("GET /courses/:id", NoToken, NoId, NoPassword, NoCode, 200,
                     "", "", NoToken) EXCEPT !.course = cid]

\* --------------------------------------------------------- attendance
\* Attendance.findOne({ courseId, date: new Date(date) })
AttendanceLookup(att, cid, date) ==
  {i \in 1..Len(att) : att[i].course = cid /\ att[i].date = date}

AttendanceIndexAbsent(att, cid, date) == TRUE

\* attendanceSchema.index({ courseId: 1, date: 1 }, { unique: true })
AttendanceIndexAllows(att, cid, date) == AttendanceLookup(att, cid, date) = {}

\* a token a client signs itself with the fallback key '121212' of the
\* source, naming the role teacher
MintedTeacher == JwtSign(1, "teacher", NoEmail, FALSE, DefaultKey, FullTTL + FullTTL)

\* POST /attendance (maintenanceOfficeOnly): the record is built without
\* markedBy, which the schema requires: save() always fails validation
AttendanceCreate(bearer, cid, date) ==
  LET pre == [CourseGate("POST /attendance", bearer, cid) EXCEPT !.date = date] IN
  /\ UNCHANGED <<jwtSecret, totpNoSecret, courses, nextCid, attendance, marks,
                 students, nextSid, regs, now, ticks, users, nextId, tokens,
                 inflight, sinceDisable>>
  /\ last' =
       IF pre.status # 0 THEN pre
       ELSE IF FindCourse(courses, cid) = "none"
       THEN [pre EXCEPT !.status = 404, !.msg = "Course not found"]
       ELSE IF AttendanceLookup(attendance, cid, date) # {}
       THEN [pre EXCEPT !.status = 400,
                        !.msg = "Attendance already marked for this date"]
       ELSE [pre EXCEPT !.status = 500, !.msg = "Error marking attendance",
                        !.err = "Attendance validation failed"]

\* isAuthenticated, then isTeacher, in front of POST /attendance/mark
MarkGate(bearer, cid, date) ==
  LET a == GateAnswer("isAuthenticated", bearer)
      t == GateAnswer("isTeacher", bearer)
  IN [(IF a.status # 0 THEN a ELSE t)
        EXCEPT !.op = "POST /attendance/mark", !.course = cid, !.date = date]

\* new Attendance({..., markedBy: req.user._id}); save(): validation, then
\* the insert under the unique index
MarkSave(pre) ==
  IF pre.ident.id = NoId THEN
    /\ last' = [pre EXCEPT !.status = 500, !.msg = "Error marking attendance",
                           !.err = "Attendance validation failed"]
    /\ UNCHANGED attendance
  ELSE IF ~AttendanceIndexAllows(attendance, pre.course, pre.date) THEN
    /\ last' = [pre EXCEPT !.status = 500, !.msg = "Error marking attendance",
                           !.err = "E11000 duplicate key error"]
    /\ UNCHANGED attendance
  ELSE
    /\ Len(attendance) < MaxCourses * NumDates + 1
    /\ attendance' = Append(attendance,
         [course |-> pre.course, date |-> pre.date, markedBy |-> pre.ident.id])
    /\ last' = [pre EXCEPT !.status = 201, !.msg = "Attendance marked successfully"]

\* POST /attendance/mark
Mark(bearer, cid, date) ==
  LET pre == MarkGate(bearer, cid, date) IN
  /\ UNCHANGED <<jwtSecret, totpNoSecret, courses, nextCid, marks, students,
                 nextSid, regs, now, ticks, users, nextId, tokens, inflight,
                 sinceDisable>>
  /\ IF pre.status # 0 THEN last' = pre /\ UNCHANGED attendance
     ELSE IF FindCourse(courses, cid) = "none" THEN
       /\ last' = [pre EXCEPT !.status = 404, !.msg = "Course not found"]
       /\ UNCHANGED attendance
     ELSE IF AttendanceLookup(attendance, cid, date) # {} THEN
       /\ last' = [pre EXCEPT !.status = 400,
                              !.msg = "Attendance already marked for this date"]
       /\ UNCHANGED attendance
     ELSE MarkSave(pre)

\* a mark request suspended at await attendance.save(), its lookups done
BeginMark(bearer, cid, date) ==
  LET pre == MarkGate(bearer, cid, date) IN
  /\ Cardinality(marks) < MaxInFlight
  /\ pre.status = 0
  /\ FindCourse(courses, cid) # "none"
  /\ AttendanceLookup(attendance, cid, date) = {}
  /\ marks' = marks \cup {pre}
  /\ UNCHANGED <<jwtSecret, totpNoSecret, courses, nextCid, attendance, students,
                 nextSid, regs, now, ticks, users, nextId, tokens, inflight,
                 sinceDisable, last>>

FinishMark(r) ==
  /\ marks' = marks \ {r}
  /\ UNCHANGED <<jwtSecret, totpNoSecret, courses, nextCid, students, nextSid,
                 regs, now, ticks, users, nextId, tokens, inflight, sinceDisable>>
  /\ MarkSave(r)

\* ------------- concurrent registrations: suspended between lookup and save
BeginRegister(email, cnic, pw, role) ==
  /\ Cardinality(regs) < MaxRegs
  /\ RegisterLookup(email, cnic) = {}
  /\ regs' = regs \cup
       {[kind |-> "user", email |-> email, cnic |-> cnic, pw |-> pw,
         role |-> IF role = "" THEN "user" ELSE role, roll |-> 0]}
  /\ UNCHANGED <<jwtSecret, totpNoSecret, courses, nextCid, attendance, marks, students, nextSid, now, ticks, users,
                 nextId, tokens, inflight, sinceDisable, last>>

BeginStudentRegister(email, cnic, pw) ==
  /\ Cardinality(regs) < MaxRegs
  /\ StudentLookup(email, cnic) = {}
  /\ regs' = regs \cup
       {[kind |-> "student", email |-> email, cnic |-> cnic, pw |-> pw,
         role |-> "student", roll |-> 0]}
  /\ UNCHANGED <<jwtSecret, totpNoSecret, courses, nextCid, attendance, marks, students, nextSid, now, ticks, users,
                 nextId, tokens, inflight, sinceDisable, last>>

\* one turn of the loop of the pre-save hook of a suspended student
\* registration: the candidate is kept when findOne({ rollId }) finds no
\* student, and the loop goes round again when it finds one
RollDraw(r, k) ==
  /\ r.kind = "student"
  /\ r.roll = 0
  /\ regs' = IF RollTaken(students, RandomRoll(k)) THEN regs
             ELSE (regs \ {r}) \cup {[r EXCEPT !.roll = RandomRoll(k)]}
  /\ UNCHANGED <<jwtSecret, totpNoSecret, courses, nextCid, attendance, marks,
                 students, nextSid, now, ticks, users, nextId, tokens, inflight,
                 sinceDisable, last>>

\* the rest of a suspended registration; a student registration that has
\* not drawn its rollId yet runs the hook to its end (draw k) first
FinishRegister(r, k) ==
  /\ regs' = regs \ {r}
  /\ UNCHANGED <<jwtSecret, totpNoSecret, courses, nextCid, attendance, marks, now, ticks, inflight, sinceDisable>>
  /\ IF r.kind = "user"
     THEN /\ RegisterSave(r.email, r.cnic, r.pw, r.role)
          /\ UNCHANGED <<students, nextSid>>
     ELSE /\ r.roll = 0 => ~RollTaken(students, RandomRoll(k))
          /\ StudentRegisterSave(r.email, r.cnic, r.pw, "", "absent", "none",
                                 IF r.roll = 0 THEN RandomRoll(k) ELSE r.roll)
          /\ UNCHANGED <<users, nextId, tokens>>

\* ------------------- concurrent requests: a 2FA handler suspended at its save
Begin2FA(op, bearer, code, s) ==
  LET pre == Inline(op, "", bearer,
                    IF op = "POST /2fa/verify" THEN Verify2FAKey ELSE SignKey,
                    NoPassword, code)
  IN
  /\ Cardinality(inflight) < MaxInFlight
  /\ pre.status = 0
  /\ inflight' = inflight \cup
       {[pre |-> pre, secret |-> s,
         snap |-> [twoFactorEnabled |-> users[pre.uid].twoFactorEnabled,
                   twoFactorSecret |-> users[pre.uid].twoFactorSecret]]}
  /\ UNCHANGED <<jwtSecret, totpNoSecret, courses, nextCid, attendance, marks, students, nextSid, regs, now, ticks, users, nextId, tokens,
                 sinceDisable, last>>

Finish2FA(r) ==
  /\ inflight' = inflight \ {r}
  /\ UNCHANGED <<jwtSecret, totpNoSecret, courses, nextCid, attendance, marks, students, nextSid, regs, now, ticks, nextId, tokens>>
  /\ CASE r.pre.op = "POST /2fa/setup" -> Setup2FABody(r.pre, r.secret, r.snap)
       [] r.pre.op = "POST /2fa/verify" -> Verify2FABody(r.pre, r.snap)
       [] r.pre.op = "POST /2fa/disable" -> Disable2FABody(r.pre, r.snap)

\* res.json(...): the response reaches the client; requests are served one
\* after the other
Deliver ==
  /\ last # Idle
  /\ last' = Idle
  /\ UNCHANGED <<jwtSecret, totpNoSecret, courses, nextCid, attendance, marks, students, nextSid, regs, now, ticks, users, nextId, tokens,
                 inflight, sinceDisable>>

Faults == {"none", "parse", "upload"}

\* one action per route (and per gate), with the inputs a client can send
DoTick == last = Idle /\ \E d \in {PendingTTL, FullTTL} : Tick(d)

\* the identity one person registers with: one address, typed in either
\* case, and one CNIC
OwnEmails == {e \in RawEmails : Lower(e) = 1}
OwnCnics == {c \in Cnics : c = 1}
OwnPasswords == {p \in Passwords : p = 1}
OwnDraws == {k \in Draws : k = 0}

\* registrations of one account, and the attempts to register it again
DoRegister ==
  /\ last = Idle
  /\ \E e \in OwnEmails, c \in OwnCnics, p \in Passwords \cup {NoPassword},
        r \in RoleInputs, f \in Faults :
       /\ nextId = 1 \/ RegisterLookup(e, c) # {}
       /\ Register(e, c, p, r, IF f = "upload" THEN "fail" ELSE "ok", f # "parse")

\* registrations of any number of accounts, all of them staff
DoRegisterAny ==
  /\ last = Idle
  /\ \E e \in RawEmails, c \in Cnics, p \in OwnPasswords \cup {NoPassword},
        r \in {"admin"}, f \in Faults :
       Register(e, c, p, r, IF f = "upload" THEN "fail" ELSE "ok", f # "parse")

DoLogin ==
  last = Idle /\ \E e \in OwnEmails, p \in Passwords \cup {NoPassword} : Login(e, p)

DoLoginVerify2FA ==
  last = Idle /\ \E t \in Bearers, c \in Codes \cup {NoCode} : LoginVerify2FA(t, c)

DoDeleteAccount ==
  last = Idle /\ \E t \in Bearers, p \in Passwords \cup {NoPassword} : DeleteAccount(t, p)

DoGetProfile == last = Idle /\ \E t \in Bearers : GetProfile(t)

DoPutProfile ==
  /\ last = Idle
  /\ \E t \in Bearers, n \in Names \cup {NoName},
        e \in (OwnEmails \cap Emails) \cup {NoEmail},
        c \in OwnCnics \cup {NoCnic}, f \in {"ok", "fail"} :
       PutProfile(t, n, e, c, f)

\* profile updates that may take any email and CNIC
DoPutProfileAny ==
  /\ last = Idle
  /\ \E t \in tokens, e \in Emails \cup {NoEmail}, c \in Cnics \cup {NoCnic} :
       PutProfile(t, NoName, e, c, "ok")

DoChangePassword ==
  /\ last = Idle
  /\ \E t \in Bearers, p \in Passwords \cup {NoPassword},
        q \in Passwords \cup {NoPassword} : ChangePassword(t, p, q)

DoSetup2FA == last = Idle /\ \E t \in Bearers, s \in Secrets : Setup2FA(t, s)

DoVerify2FA ==
  last = Idle /\ \E t \in Bearers, c \in Codes \cup {NoCode} : Verify2FA(t, c)

DoDisable2FA ==
  last = Idle /\ \E t \in Bearers, p \in Passwords \cup {NoPassword} : Disable2FA(t, p)

DoGate == last = Idle /\ \E g \in Gates, t \in Bearers : Gate(g, t)

Next ==
  \/ DoTick
  \/ DoRegister
  \/ DoLogin
  \/ DoLoginVerify2FA
  \/ DoDeleteAccount
  \/ DoGetProfile
  \/ DoPutProfile
  \/ DoChangePassword
  \/ DoSetup2FA
  \/ DoVerify2FA
  \/ DoDisable2FA
  \/ DoGate
  \/ Deliver

Spec == Init /\ [][Next]_vars

\* 2FA requests of one user overlapping: each is a read of the user followed
\* later by its save
BeginSetup2FA ==
  last = Idle /\ \E t \in tokens, s \in Secrets : Begin2FA("POST /2fa/setup", t, NoCode, s)

BeginVerify2FA ==
  last = Idle /\ \E t \in tokens, c \in Codes : Begin2FA("POST /2fa/verify", t, c, NoSecret)

BeginDisable2FA ==
  last = Idle /\ \E t \in tokens : Begin2FA("POST /2fa/disable", t, NoCode, NoSecret)

DoFinish2FA == last = Idle /\ \E r \in inflight : Finish2FA(r)

NextConc ==
  \/ DoRegister
  \/ DoLogin
  \/ DoLoginVerify2FA
  \/ DoDeleteAccount
  \/ DoSetup2FA
  \/ DoVerify2FA
  \/ DoDisable2FA
  \/ BeginSetup2FA
  \/ BeginVerify2FA
  \/ BeginDisable2FA
  \/ DoFinish2FA
  \/ Deliver

SpecConc == Init /\ [][NextConc]_vars

\* the same two systems when the TOTP library is the one that throws on an
\* absent secret, so that 2FA can be enabled only after a setup
InitStrict == Init /\ totpNoSecret = "throws"
SpecStrict == InitStrict /\ [][Next]_vars
SpecConcStrict == InitStrict /\ [][NextConc]_vars

\* ------------------------------------------------- the students routes
\* registrations of one student, and the attempts to register them again
DoStudentRegister ==
  /\ last = Idle
  /\ \E e \in OwnEmails, c \in OwnCnics, p \in Passwords \cup {NoPassword},
        st \in {"", "Enrolled"}, a \in AddressInputs, f \in StudentFaults,
        k \in OwnDraws :
       /\ nextSid = 1 \/ StudentLookup(e, c) # {}
       /\ StudentRegister(e, c, p, st, a, f, k)

\* registrations of any number of students
DoStudentRegisterAny ==
  /\ last = Idle
  /\ \E e \in RawEmails, c \in Cnics, p \in OwnPasswords \cup {NoPassword},
        f \in StudentFaults, k \in Draws :
       StudentRegister(e, c, p, "", "absent", f, k)

DoStudentLogin ==
  last = Idle /\ \E e \in OwnEmails, p \in Passwords \cup {NoPassword} : StudentLogin(e, p)

DoStudentCreate ==
  last = Idle /\ \E t \in Bearers, e \in Emails : StudentCreate(t, e)

DoStudentUpdate ==
  /\ last = Idle
  /\ \E t \in Bearers, i \in StudentIds, e \in (OwnEmails \cap Emails) \cup {NoEmail},
        st \in StatusInputs, f \in {"ok", "fail"} :
       StudentUpdate(t, i, e, st, f)

\* updates that may give a student any email
DoStudentUpdateAny ==
  /\ last = Idle
  /\ \E t \in tokens, i \in StudentIds, e \in Emails :
       StudentUpdate(t, i, e, "", "ok")

DoStudentDelete ==
  last = Idle /\ \E t \in Bearers, i \in StudentIds : StudentDelete(t, i)

DoStudentList ==
  last = Idle /\ \E op \in ListOps, t \in Bearers : StudentList(op, t)

DoStudentGet ==
  last = Idle /\ \E t \in Bearers, i \in StudentIds : StudentGet(t, i)

\* staff and students: one staff account, the students it administers, the
\* gates in front of the routes
NextStudents ==
  \/ DoTick
  \/ DoRegister
  \/ DoLogin
  \/ DoStudentRegister
  \/ DoStudentLogin
  \/ DoStudentCreate
  \/ DoStudentUpdate
  \/ DoStudentDelete
  \/ DoStudentList
  \/ DoStudentGet
  \/ DoGate
  \/ Deliver

SpecStudents == InitStrict /\ [][NextStudents]_vars

\* registrations and updates of identities, sequential and overlapping
DoBeginRegister ==
  /\ last = Idle
  /\ \E e \in Emails, c \in Cnics, p \in OwnPasswords :
       BeginRegister(e, c, p, "admin")

DoBeginStudentRegister ==
  /\ last = Idle
  /\ \E e \in Emails, c \in Cnics, p \in OwnPasswords :
       BeginStudentRegister(e, c, p)

DoFinishRegister ==
  last = Idle /\ \E r \in regs, k \in Draws : FinishRegister(r, k)

NextReg ==
  \/ DoRegisterAny
  \/ DoPutProfileAny
  \/ DoStudentRegisterAny
  \/ DoStudentCreate
  \/ DoStudentUpdateAny
  \/ DoBeginRegister
  \/ DoBeginStudentRegister
  \/ DoFinishRegister
  \/ Deliver

InitReg == InitStrict /\ jwtSecret = ""
SpecReg == InitReg /\ [][NextReg]_vars

\* one account through registration, login, profile, password change and 2FA
\* enrolment, and the students registering
NextAccounts ==
  \/ DoRegister
  \/ DoLogin
  \/ DoLoginVerify2FA
  \/ DoGetProfile
  \/ DoPutProfile
  \/ DoChangePassword
  \/ DoSetup2FA
  \/ DoVerify2FA
  \/ DoStudentRegister
  \/ Deliver

SpecAccounts == Init /\ [][NextAccounts]_vars

\* ------------------------------------------ courses and attendance
\* the staff account that administers the courses
DoRegisterStaff ==
  last = Idle /\ Register(1, 1, 1, "maintenance_office", "ok", TRUE)

\* the tokens a course or attendance request may carry
CourseBearers == tokens \cup {NoToken, MintedTeacher}

DoCourseCreate ==
  last = Idle /\ \E t \in CourseBearers, v \in BOOLEAN, a \in BOOLEAN :
                   CourseCreate(t, v, a)

DoCourseDelete ==
  last = Idle /\ \E t \in CourseBearers, c \in CourseIds : CourseDelete(t, c)

DoCourseGet == last = Idle /\ \E c \in CourseIds : CourseGet(c)

DoAttendanceCreate ==
  last = Idle /\ \E t \in CourseBearers, c \in CourseIds, d \in Dates :
                   AttendanceCreate(t, c, d)

DoMark ==
  last = Idle /\ \E t \in CourseBearers, c \in CourseIds, d \in Dates : Mark(t, c, d)

DoBeginMark ==
  last = Idle /\ \E t \in CourseBearers, c \in CourseIds, d \in Dates :
                   BeginMark(t, c, d)

DoFinishMark == last = Idle /\ \E r \in marks : FinishMark(r)

NextCourses ==
  \/ DoRegisterStaff
  \/ DoCourseCreate
  \/ DoCourseDelete
  \/ DoCourseGet
  \/ DoAttendanceCreate
  \/ DoMark
  \/ DoBeginMark
  \/ DoFinishMark
  \/ Deliver

SpecCourses == InitStrict /\ [][NextCourses]_vars

\* ------------------------------------------------------------ roll ids
DoRollDraw == \E r \in regs, k \in Draws : RollDraw(r, k)

\* a turn of the loop of the registration of (email, cnic) that draws a
\* candidate no student holds
RollDrawFresh(email, cnic) ==
  \E r \in regs, k \in Draws :
    /\ r.email = email
    /\ r.cnic = cnic
    /\ ~RollTaken(students, RandomRoll(k))
    /\ RollDraw(r, k)

NextRoll ==
  \/ DoRegisterStaff
  \/ DoBeginStudentRegister
  \/ DoRollDraw
  \/ DoFinishRegister
  \/ DoStudentUpdateAny
  \/ Deliver

\* Math.random() does not avoid the unused candidates for ever, and a
\* response that is ready is sent
FairRoll ==
  /\ WF_vars(Deliver)
  /\ \A e \in Emails, c \in Cnics : WF_vars(RollDrawFresh(e, c))

SpecRoll == InitReg /\ [][NextRoll]_vars /\ FairRoll

\* ====================================================================
\* Properties
\* ====================================================================
\* a request is answered in this step
Answers(op) == last = Idle /\ last' # Idle /\ last'.op = op

\* the token verifies against the configured signing key at this instant
ValidNow(tok) == JwtVerify(tok, SignKey, now) = ""

\* C1: for a user with twoFactorEnabled, login answers with a pending token
\* only (requires2FA, 5-minute expiry); a full token for such a user comes
\* only from login/verify-2fa, and login/verify-2fa issues a token only when
\* the pending token verifies, carries requires2FA, the user exists and the
\* submitted code passes the TOTP check against the stored secret.
C1_FullTokenOnlyAfter2FA ==
  [][(last = Idle /\ last' # Idle /\ last'.token.kind = "jwt") =>
       LET t == last'.token
           u == t.uid
           enabledBefore == FindById(users, u).exists /\ users[u].twoFactorEnabled
       IN
       /\ (last'.op = "login" /\ enabledBefore) =>
            (t.requires2FA /\ t.exp = now + PendingTTL)
       /\ (enabledBefore /\ ~t.requires2FA) => last'.op = "login/verify-2fa"
       /\ last'.op = "login/verify-2fa" =>
            /\ ~t.requires2FA
            /\ last'.status = 200
            /\ ValidNow(last'.bearer)
            /\ last'.bearer.requires2FA
            /\ last'.bearer.uid = u
            /\ FindById(users, u).exists
            /\ last'.code # NoCode
            /\ TotpVerify(users[u].twoFactorSecret, last'.code) = "ok"
    ]_vars

C1_Witness ==
  /\ last.op = "login/verify-2fa"
  /\ last.status = 200
  /\ last.token.kind = "jwt"
  /\ ~last.token.requires2FA
  /\ last.bearer.requires2FA
  /\ users[last.uid].twoFactorEnabled
  /\ users[last.uid].twoFactorSecret # NoSecret

\* C2: a pending token (requires2FA = true) presented as bearer token to any
\* operation other than login/verify-2fa is rejected and nothing changes.
C2_PendingTokenOnlyVerifies ==
  [][(last = Idle /\ last' # Idle /\ last'.bearer.kind = "jwt"
      /\ last'.bearer.key = SignKey /\ last'.bearer.requires2FA
      /\ last'.op # "login/verify-2fa") =>
       (last'.status >= 400 /\ users' = users)
    ]_vars

\* C3: whatever the signing key configuration, /2fa/verify called with a full
\* token that /2fa/setup accepts and with the code of the stored secret
\* enables 2FA.
C3_VerifyAcceptsSetupToken ==
  [][(Answers("POST /2fa/verify") /\ ValidNow(last'.bearer)
      /\ ~last'.bearer.requires2FA
      /\ FindById(users, last'.bearer.uid).exists
      /\ users[last'.bearer.uid].twoFactorSecret # NoSecret
      /\ last'.code = TotpCode(users[last'.bearer.uid].twoFactorSecret)) =>
       (last'.status = 200 /\ users'[last'.bearer.uid].twoFactorEnabled)
    ]_vars

\* C4: a successful /2fa/disable clears twoFactorEnabled and removes the
\* stored secret in the same write; when 2FA is not enabled it answers 400
\* and changes nothing.
C4_DisableClearsBoth ==
  [][Answers("POST /2fa/disable") =>
       LET u == last'.bearer.uid IN
       /\ last'.status = 200 =>
            /\ users[u].twoFactorEnabled
            /\ ~users'[u].twoFactorEnabled
            /\ users'[u].twoFactorSecret = NoSecret
       /\ (ValidNow(last'.bearer) /\ FindById(users, u).exists
           /\ ~users[u].twoFactorEnabled) =>
            (last'.status = 400 /\ users' = users)
    ]_vars

C4_Witness ==
  /\ totpNoSecret = "throws"
  /\ last.op = "POST /2fa/disable"
  /\ last.status = 200
  /\ ~users[last.uid].twoFactorEnabled
  /\ users[last.uid].twoFactorSecret = NoSecret


\* C5: after a successful disable, twoFactorEnabled does not become true
\* again until a later /2fa/setup has stored a new secret.
C5_NoReenableWithoutSetup ==
  [][\A u \in UserIds :
       sinceDisable[u] =>
         ~(~users[u].twoFactorEnabled /\ users'[u].twoFactorEnabled)
    ]_vars

\* C6: /2fa/setup never changes twoFactorEnabled; twoFactorEnabled becomes
\* true only in /2fa/verify after a successful code check; while it is true
\* only disable changes the stored secret.
C6_TwoFactorStateMachine ==
  [][\A u \in UserIds :
       (users[u].exists /\ users'[u].exists) =>
         /\ last'.op = "POST /2fa/setup" =>
              users'[u].twoFactorEnabled = users[u].twoFactorEnabled
         /\ (~users[u].twoFactorEnabled /\ users'[u].twoFactorEnabled) =>
              /\ last'.op = "POST /2fa/verify"
              /\ TotpVerify(users[u].twoFactorSecret, last'.code) = "ok"
         /\ (users[u].twoFactorEnabled
             /\ users'[u].twoFactorSecret # users[u].twoFactorSecret) =>
              last'.op = "POST /2fa/disable"
    ]_vars

\* C7: change-password, account deletion and 2FA disable take effect only
\* when the request carries the current password and it matches.
SensitiveOps == {"PUT /change-password", "DELETE /account", "POST /2fa/disable"}

C7_SensitiveOpsNeedPassword ==
  [][(last = Idle /\ last' # Idle /\ last'.op \in SensitiveOps
      /\ (users' # users \/ last'.status = 200)) =>
       BcryptCompare(last'.pw, users[last'.bearer.uid].password) = "match"
    ]_vars

\* C8: at every role gate a valid token proceeds exactly when its role is in
\* the gate's required set; otherwise the answer is 403, and checkRole's
\* message names every required role.
RequiredRoles(g) ==
  CASE g = "adminOnly" -> {"admin"}
    [] g = "maintenanceOfficeOnly" -> {"maintenance_office"}
    [] g = "adminOrMaintenance" -> {"admin", "maintenance_office"}
    [] g = "isTeacher" -> {"teacher"}
    [] g = "isAdmin" -> {"admin"}

C8_RoleGateIsMembership ==
  (last.op \in Gates \ {"isAuthenticated"} /\ ValidNow(last.bearer)) =>
     IF last.bearer.role \in RequiredRoles(last.op)
     THEN last.status = 0 /\ last.msg = "next" /\ last.uid = last.bearer.uid
     ELSE /\ last.status = 403
          /\ last.op \in CheckRoleGates =>
               \A r \in RequiredRoles(last.op) : r \in Range(last.names)

C8_Witness ==
  /\ last.op = "adminOnly"
  /\ ValidNow(last.bearer)
  /\ last.bearer.role = "maintenance_office"
  /\ last.status = 403
  /\ last.names = <<"admin">>

\* C9: wherever a token is required, an absent, malformed, wrongly signed or
\* expired bearer token is answered with 401.
TokenOps ==
  Gates \cup {"GET /profile", "PUT /profile", "PUT /change-password",
              "POST /2fa/setup", "POST /2fa/verify", "POST /2fa/disable",
              "DELETE /account"}

C9_BadTokenIs401 ==
  (last.op \in TokenOps /\ ~ValidNow(last.bearer)) => last.status = 401

\* C10: a token verified after its TTL is reported as expired, an outcome
\* distinct from the one given for a malformed or wrongly signed token.
Expired(tok) == tok.kind = "jwt" /\ tok.key = SignKey /\ now >= tok.exp

C10_ExpiredIsNotInvalid ==
  (last.op \in TokenOps /\ Expired(last.bearer)) =>
     /\ last.msg # "Invalid token"
     /\ last.err \notin {"jwt malformed", "invalid signature"}

\* ---------------------------------------------------------------------
RegisterOps == {"register", "student register"}

\* C11: whenever a gate admits a request, the identity it attaches (id, role,
\* email) is the id, role and email of the principal the token was issued
\* to, user or student.
C11_GateIdentityIsPrincipal ==
  (last.op \in Gates /\ last.status = 0) =>
     LET t == last.bearer IN
     IF t.sid # NoId
     THEN FindStudent(students, t.sid).exists =>
            last.ident = [id |-> t.sid, role |-> "student",
                          email |-> students[t.sid].email]
     ELSE FindById(users, t.uid).exists =>
            last.ident = [id |-> t.uid, role |-> users[t.uid].role,
                          email |-> users[t.uid].email]

\* no two users and no two students hold the same email or the same CNIC
NoDuplicates(us, ss) ==
  /\ \A a, b \in UserIds :
       (a # b /\ us[a].exists /\ us[b].exists) =>
         (us[a].email # us[b].email /\ us[a].cnic # us[b].cnic)
  /\ \A a, b \in StudentIds :
       (a # b /\ ss[a].exists /\ ss[b].exists) =>
         (ss[a].email # ss[b].email /\ ss[a].cnic # ss[b].cnic)

\* C12: after every step of registrations, student creations and updates,
\* sequential or overlapping, no two users and no two students share an
\* email or a CNIC, and a request answered with a failure leaves every
\* stored record as it was.
C12_IdentitiesStayUnique ==
  [][/\ NoDuplicates(users', students')
     /\ (last = Idle /\ last' # Idle /\ last'.status >= 400) =>
          (users' = users /\ students' = students)
    ]_vars

C12_Witness ==
  /\ last.err = "E11000 duplicate key error"
  /\ \A u \in UserIds : users[u].exists
  /\ \A i \in StudentIds : students[i].exists

\* C13: a registration rejected because the lookup found an existing record
\* says 'Email already registered' whenever the submitted email is that
\* record's email as the store matches it (lower case), and 'CNIC already
\* registered' only otherwise.
C13_DuplicateNamesField ==
  (last.op \in RegisterOps /\ last.status = 400 /\ last.uid # NoId) =>
     LET stored == IF last.op = "register" THEN users[last.uid].email
                   ELSE students[last.uid].email
     IN last.msg = IF stored = Lower(last.email)
                   THEN "Email already registered"
                   ELSE "CNIC already registered"

\* C14: a registration whose save is refused by the unique index (it passed
\* the lookup while a concurrent registration had not yet saved) is answered
\* 400 with the message naming the field, as a sequential duplicate is.
C14_RaceLoserGetsDuplicate ==
  (last.op \in RegisterOps /\ last.err = "E11000 duplicate key error") =>
     /\ last.status = 400
     /\ last.msg \in {"Email already registered", "CNIC already registered"}

\* C15: the password stored for every user and student is the bcrypt hash of
\* a submitted password: one hashing over a plaintext a client sent.
C15_StoredPasswordIsHashOfSubmitted ==
  /\ \A u \in UserIds :
       users[u].exists =>
         \E p \in Passwords : users[u].password = BcryptHash(Plain(p))
  /\ \A i \in StudentIds :
       students[i].exists =>
         \E p \in Passwords : students[i].password = BcryptHash(Plain(p))

\* C16: a user or student registration answered with a failure has created
\* and modified no record.
C16_FailedRegistrationStoresNothing ==
  [][(last = Idle /\ last' # Idle /\ last'.op \in RegisterOps
      /\ last'.status >= 400) =>
       /\ users' = users
       /\ students' = students
       /\ nextId' = nextId
       /\ nextSid' = nextSid
    ]_vars

C16_Witness ==
  /\ last.op = "student register"
  /\ last.status = 500
  /\ last.err = "Error uploading image to Cloudinary"
  /\ \A i \in StudentIds : ~students[i].exists

\* C17: when the ID-card block of student registration has run, whether it
\* succeeded or threw, the answer is the same 201 with the same body, the
\* student saved by this request is stored, and no other record changed.
C17_IdCardFailureIsSwallowed ==
  [][(Answers("student register") /\ last'.idCard # "notrun") =>
       /\ last'.status = 201
       /\ last'.msg = "Registered successfully"
       /\ last'.err = ""
       /\ last'.fields = StudentView
       /\ last'.uid = nextSid
       /\ ~students[nextSid].exists
       /\ students'[nextSid].exists
       /\ students'[nextSid].email = Lower(last'.email)
       /\ \A i \in StudentIds \ {nextSid} : students'[i] = students[i]
    ]_vars

C17_Witness ==
  /\ last.op = "student register"
  /\ last.idCard = "smtp"
  /\ last.status = 201
  /\ students[last.uid].exists

\* C18: a student is created with status Pending whatever the body says, and
\* afterwards the status changes only in a successful PUT /students/:id
\* carrying a valid admin or maintenance_office token.
C18_StatusOnlyByAdminUpdate ==
  [][\A i \in StudentIds :
       /\ (~students[i].exists /\ students'[i].exists) =>
            students'[i].status = "Pending"
       /\ (students[i].exists /\ students'[i].exists
           /\ students'[i].status # students[i].status) =>
            /\ last'.op = "PUT /students/:id"
            /\ last'.status = 200
            /\ ValidNow(last'.bearer)
            /\ last'.bearer.role \in {"admin", "maintenance_office"}
    ]_vars

C18_Witness ==
  /\ last.op = "PUT /students/:id"
  /\ last.status = 200
  /\ \E i \in StudentIds : students[i].exists /\ students[i].status = "Enrolled"

\* the failures of student registration that have other causes than the
\* address
OtherFailures ==
  {"Invalid course selection format",
   "One or more selected courses do not exist", "Email already registered",
   "CNIC already registered", "Error uploading image to Cloudinary",
   "data and salt arguments required", "E11000 duplicate key error",
   "E11000 duplicate key error: rollId"}

\* C19: a student registration whose address is a string that is not JSON
\* does not fail for that reason: when nothing else fails the answer is 201
\* and the student is stored with the address of five empty strings.
C19_BadAddressDefaultsToEmpty ==
  (last.op = "student register" /\ last.address = "garbage") =>
     /\ last.status # 201 => (last.msg \in OtherFailures \/ last.err \in OtherFailures)
     /\ last.status = 201 =>
          (students[last.uid].exists /\ students[last.uid].address = "empty")

C19_Witness ==
  /\ last.op = "student register"
  /\ last.address = "garbage"
  /\ last.status = 201
  /\ students[last.uid].address = "empty"

\* the operations whose answer carries a view of the principal
BodyOps ==
  {"register", "login", "login/verify-2fa", "GET /profile", "PUT /profile",
   "student register"}

\* C20: the bodies of user registration, login, login/verify-2fa, profile
\* fetch, profile update and student registration never carry the stored
\* password hash or the two-factor secret.
C20_BodiesHideCredentials ==
  last.op \in BodyOps =>
    last.fields \cap {"password", "twoFactorSecret"} = {}

C20_Witness ==
  /\ last.op = "GET /profile"
  /\ last.status = 200
  /\ "email" \in last.fields
  /\ users[last.uid].twoFactorSecret # NoSecret
\* the roles the staff gates admit
Privileged == {"admin", "maintenance_office"}

\* C21: a user comes to hold the role admin or maintenance_office only in a
\* request that carries a valid token of such a role: the role is never the
\* value a request without such a token supplied.
C21_RoleNeverFromRequest ==
  [][\A u \in UserIds :
       (/\ users'[u].exists
        /\ users'[u].role \in Privileged
        /\ ~(users[u].exists /\ users[u].role = users'[u].role)) =>
         /\ ValidNow(last'.bearer)
         /\ last'.bearer.role \in Privileged
    ]_vars

\* the students whose email and password a login submitted
Matching(email, pw) ==
  {i \in StudentIds :
     /\ students[i].exists
     /\ students[i].email = Lower(email)
     /\ BcryptCompare(pw, students[i].password) = "match"}

\* C22: student login issues a token only to an existing student whose
\* password matches and whose status is Enrolled at that moment, and the
\* token is the student's, role 'student', valid 24 hours; with the right
\* password and any other status the answer is 403 without a token.
C22_StudentLoginNeedsEnrolled ==
  [][Answers("student login") =>
       /\ last'.token # NoToken =>
            /\ last'.status = 200
            /\ last'.token.sid \in Matching(last'.email, last'.pw)
            /\ students[last'.token.sid].status = "Enrolled"
            /\ last'.token.role = "student"
            /\ last'.token.key = SignKey
            /\ last'.token.exp = now + FullTTL
       /\ \A i \in Matching(last'.email, last'.pw) :
            students[i].status # "Enrolled" =>
              (last'.status = 403 /\ last'.token = NoToken)
       /\ last'.status # 200 => (last'.token = NoToken /\ tokens' = tokens)
    ]_vars

C22_Witness ==
  /\ last.op = "student login"
  /\ last.status = 403
  /\ \E i \in Matching(last.email, last.pw) : students[i].status = "Pending"

\* C23: GET /students and GET /students/enrolled return student data only
\* to a request whose token verifies and carries the role admin or
\* maintenance_office.
C23_ListingsNeedStaffToken ==
  (last.op \in ListOps /\ last.fields # {}) =>
     /\ ValidNow(last.bearer)
     /\ last.bearer.role \in Privileged

\* C26: after a successful change of password from p to q, q different from
\* p, the stored credential verifies against q and not against p (the
\* comparison a later login makes).
C26_NewPasswordVerifies ==
  [][(Answers("PUT /change-password") /\ last'.status = 200
      /\ last'.newpw # last'.pw) =>
       LET stored == users'[last'.bearer.uid].password IN
       /\ BcryptCompare(last'.newpw, stored) = "match"
       /\ BcryptCompare(last'.pw, stored) # "match"
    ]_vars

\* C27: under every interleaving of /2fa/setup, /2fa/verify and
\* /2fa/disable, a user with twoFactorEnabled = true has a stored secret.
C27_EnabledHasSecret ==
  \A u \in UserIds :
    (users[u].exists /\ users[u].twoFactorEnabled) =>
      users[u].twoFactorSecret # NoSecret

\* the student endpoints whose answer carries student documents
StudentBodyOps ==
  ListOps \cup {"POST /students", "GET /students/:id", "PUT /students/:id"}

\* C28: no answer of a student endpoint carries a student's stored password
\* hash.
C28_StudentBodiesHidePassword ==
  last.op \in StudentBodyOps => "password" \notin last.fields

\* no user holds the role teacher and no token carries it
TeacherNeverIssued ==
  /\ \A u \in UserIds : users[u].exists => users[u].role # "teacher"
  /\ \A t \in tokens : t.role # "teacher"

\* C30: a teacher can obtain a token: a registration that asks for the role
\* 'teacher' is not refused for its role.
C30_TeacherCanRegister ==
  last.op = "register" =>
    last.err # "User validation failed: role is not a valid enum value"
\* C24: DELETE /courses/:id with a maintenance_office token on an existing
\* course is a soft delete: the course stays stored, with isActive false.
C24_DeleteIsSoft ==
  [][(Answers("DELETE /courses/:id") /\ last'.status = 200) =>
       courses'[last'.course] = "inactive"
    ]_vars

\* no two attendance records of the same course and date
OnePerCourseAndDate(att) ==
  \A i, j \in 1..Len(att) :
    (att[i].course = att[j].course /\ att[i].date = att[j].date) => i = j

InHook(email, cnic) ==
  \E r \in regs : r.kind = "student" /\ r.email = email /\ r.cnic = cnic /\ r.roll = 0

\* some rollId of the range is held by no student
SomeRollFree == \E k \in Draws : ~RollTaken(students, RandomRoll(k))

====
